---- MODULE Spec2Model ----
(***************************************************************************)
(* The duel engine of backend/services/duel_service.py: the duels table,   *)
(* the question_attempts table, the users' xp column and the operations    *)
(* of DuelService (create_duel, join_duel, _attempt_matchmaking,           *)
(* submit_solution, cleanup_old_duels).                                    *)
(*                                                                         *)
(* Spec       every operation runs to completion before the next starts.   *)
(* SpecAsync  the submissions to one ACTIVE duel of two participants, with *)
(*            submit_solution split at its only await (the call of the     *)
(*            code execution service): several submissions can be in       *)
(*            flight on the event loop at once.                            *)
(***************************************************************************)
EXTENDS Integers, FiniteSets, Sequences, TLC

\* ---- bounds of the model ------------------------------------------------
MaxDuels == 2
MaxAttempts == 3
MaxPending == 2
MaxTicks == 2

\* ---- program constants --------------------------------------------------
BotGraceSeconds == 30
CleanupSeconds == 300
BotSuccessBoost == 20
BotSuccessCap == 95
MinBotTime == 1

\* SQL NULL / Python None of an id or a timestamp column (ids of users are
\* positive, ids of bots negative, timestamps start at 1).
None == 0

\* The ids of the rows of the users table.
Users == {1, 2}

\* The session factories of the repository are created with autoflush=False:
\* a QuestionAttempt that was add()ed but not yet committed is not seen by
\* the queries of the same call.
AutoFlush == FALSE

\* ---- the questions table (static data) ----------------------------------
\* Question 1 is the fixture of the test-suite (code, difficulty 3, 30 xp),
\* question 2 a second code question, question 3 a multiple-choice question;
\* id 4 is an id with no row.
QuestionIds == {1, 2, 3}
RequestedQuestionIds == QuestionIds \cup {4}

Question(q) ==
    CASE q = 1 -> [type |-> "code", difficulty |-> 3, xp_reward |-> 30]
      [] q = 2 -> [type |-> "code", difficulty |-> 1, xp_reward |-> 15]
      [] q = 3 -> [type |-> "mcq",  difficulty |-> 1, xp_reward |-> 10]

\* The elapsed times a client reports.
TimesTaken == {5, 9}

\* The clock advances by 31 s, 270 s, 31 s, ...: a duel created at the first
\* instant is seen at the ages 31 s (past the bot grace period) and 301 s
\* (past the cleanup threshold), one created at the second at the age 270 s.
TickSchedule == <<31, 270>>

VARIABLES
    duels,      \* the rows of the duels table
    nextId,     \* the next primary key of the duels table
    attempts,   \* the rows of the question_attempts table
    xp,         \* users.xp, as credited by GamificationService.award_xp
    now,        \* the clock (seconds)
    ticks,      \* number of clock advances so far
    pending     \* submit_solution calls suspended at the await of the judge

vars == <<duels, nextId, attempts, xp, now, ticks, pending>>

\* ---- rows ---------------------------------------------------------------
NewDuel(id, u, q, t) ==
    [id |-> id, challenger_id |-> u, opponent_id |-> None, question_id |-> q,
     status |-> "WAITING", winner_id |-> None, created_at |-> t,
     completed_at |-> None]

DuelsById(ds, id) == {d \in ds : d.id = id}

\* The query with the opponent_id branch of the or_ left out.
ExistingDuels_challengerOnly(ds, u) ==
    {d \in ds : /\ d.challenger_id = u
                /\ d.status \in {"WAITING", "ACTIVE"}}

\* The query of create_duel and join_duel for a WAITING or ACTIVE duel of
\* the user.
ExistingDuels(ds, u) ==
    {d \in ds : /\ (d.challenger_id = u \/ d.opponent_id = u)
                /\ d.status \in {"WAITING", "ACTIVE"}}

\* ---- matchmaking --------------------------------------------------------
\* The bot id without its sign.
AssignBotOpponent_positiveTier(duel) ==
    IF duel.question_id \notin QuestionIds
    THEN None
    ELSE Question(duel.question_id).difficulty

AssignBotOpponent(duel) ==
    IF duel.question_id \notin QuestionIds
    THEN None
    ELSE -(Question(duel.question_id).difficulty)

\* The peer query without the filter on the question.
PotentialOpponentDuels_anyQuestion(ds, duel) ==
    {p \in ds : /\ p.status = "WAITING"
                /\ p.challenger_id # duel.challenger_id
                /\ p.id # duel.id
                /\ p.opponent_id = None}

PotentialOpponentDuels(ds, duel) ==
    {p \in ds : /\ p.status = "WAITING"
                /\ p.question_id = duel.question_id
                /\ p.challenger_id # duel.challenger_id
                /\ p.id # duel.id
                /\ p.opponent_id = None}

\* Matchmaking that stores the duel's own challenger_id as the opponent of a
\* matched duel.
AttemptMatchmaking_selfOpponent(ds, id, t) ==
    LET found == DuelsById(ds, id)
        nothing == {[duels |-> ds, matched |-> FALSE]}
    IN  IF found = {} \/ (\E d \in found : d.status # "WAITING")
        THEN nothing
        ELSE LET duel == CHOOSE d \in found : TRUE
                 peers == {p \in ds : /\ p.status = "WAITING"
                                      /\ p.question_id = duel.question_id
                                      /\ p.challenger_id # duel.challenger_id
                                      /\ p.id # duel.id
                                      /\ p.opponent_id = None}
             IN  IF peers # {}
                 THEN {[duels |-> (ds \ {duel, p}) \cup
                                  {[duel EXCEPT !.opponent_id = duel.challenger_id,
                                                !.status = "ACTIVE"]},
                        matched |-> TRUE] : p \in peers}
                 ELSE IF t - duel.created_at > BotGraceSeconds
                      THEN LET bot_id == IF duel.question_id \notin QuestionIds
                                         THEN None
                                         ELSE -(Question(duel.question_id).difficulty)
                           IN  IF bot_id # None
                               THEN {[duels |-> (ds \ {duel}) \cup
                                                {[duel EXCEPT !.opponent_id = bot_id,
                                                              !.status = "ACTIVE"]},
                                      matched |-> TRUE]}
                               ELSE nothing
                      ELSE nothing

\* The results _attempt_matchmaking(id) can have on the table ds at time t:
\* the query for a peer has no ORDER BY, so any peer can be the first().
AttemptMatchmaking(ds, id, t) ==
    LET found == DuelsById(ds, id)
        nothing == {[duels |-> ds, matched |-> FALSE]}
    IN  IF found = {} \/ (\E d \in found : d.status # "WAITING")
        THEN nothing
        ELSE LET duel == CHOOSE d \in found : TRUE
                 peers == PotentialOpponentDuels(ds, duel)
             IN  IF peers # {}
                 THEN {[duels |-> (ds \ {duel, p}) \cup
                                  {[duel EXCEPT !.opponent_id = p.challenger_id,
                                                !.status = "ACTIVE"]},
                        matched |-> TRUE] : p \in peers}
                 ELSE IF t - duel.created_at > BotGraceSeconds
                      THEN LET bot_id == AssignBotOpponent(duel)
                           IN  IF bot_id # None
                               THEN {[duels |-> (ds \ {duel}) \cup
                                                {[duel EXCEPT !.opponent_id = bot_id,
                                                              !.status = "ACTIVE"]},
                                      matched |-> TRUE]}
                               ELSE nothing
                      ELSE nothing

\* ---- adjudication -------------------------------------------------------
Abs(n) == IF n < 0 THEN -n ELSE n
Min(a, b) == IF a < b THEN a ELSE b
Max(a, b) == IF a > b THEN a ELSE b

\* success_rates and base_times of _simulate_bot_solution (rates in percent).
BotSuccessRate(difficulty) ==
    CASE difficulty = 1 -> 30
      [] difficulty = 2 -> 50
      [] difficulty = 3 -> 70
      [] difficulty = 4 -> 85
      [] difficulty = 5 -> 95
      [] OTHER -> 50

BotBaseTime(difficulty) ==
    CASE difficulty = 1 -> 15
      [] difficulty = 2 -> 12
      [] difficulty = 3 -> 8
      [] difficulty = 4 -> 5
      [] difficulty = 5 -> 3
      [] OTHER -> 10

\* _simulate_bot_solution with random.randint(-3, 3) as the jitter.
SimulateBotSolution_widerJitter(bot_id, user_is_correct) ==
    LET difficulty == Abs(bot_id)
        base_rate == BotSuccessRate(difficulty)
        success_rate == IF ~user_is_correct
                        THEN Min(base_rate + BotSuccessBoost, BotSuccessCap)
                        ELSE base_rate
        base_time == BotBaseTime(difficulty)
    IN  {[is_correct |-> is_correct,
          time_taken |-> Max(MinBotTime, base_time + jitter)] :
            is_correct \in {roll < success_rate : roll \in 0 .. 99},
            jitter \in -3 .. 3}

\* Every result _simulate_bot_solution can return: random.random() is a
\* number of hundredths in [0, 1), random.randint(-2, 3) the jitter.
SimulateBotSolution(bot_id, user_is_correct) ==
    LET difficulty == Abs(bot_id)
        base_rate == BotSuccessRate(difficulty)
        success_rate == IF ~user_is_correct
                        THEN Min(base_rate + BotSuccessBoost, BotSuccessCap)
                        ELSE base_rate
        base_time == BotBaseTime(difficulty)
    IN  {[is_correct |-> is_correct,
          time_taken |-> Max(MinBotTime, base_time + jitter)] :
            is_correct \in {roll < success_rate : roll \in 0 .. 99},
            jitter \in -2 .. 3}

NoBotResult == [is_correct |-> FALSE, time_taken |-> 0]

NoAttempt == [user_id |-> None, question_id |-> None, is_correct |-> FALSE,
              created_at |-> None]

\* The rows the query ... order_by(created_at.desc()).first() can return:
\* the attempts of user u on question q made at or after `since` that carry
\* the greatest timestamp (rows with equal timestamps come in any order), or
\* no row.
LatestAttempts(atts, u, q, since) ==
    LET rows == {a \in atts : /\ a.user_id = u
                              /\ a.question_id = q
                              /\ a.created_at >= since}
    IN  IF rows = {}
        THEN {NoAttempt}
        ELSE {a \in rows : \A b \in rows : b.created_at <= a.created_at}

\* A call of submit_solution that passed the checks before the await:
\* duel is the Duel object as this session loaded it.
Call(u, duel, ok, tt) ==
    [user_id |-> u, duel |-> duel, is_correct |-> ok, time_taken |-> tt]

NewAttempt(c, t) ==
    [user_id |-> c.user_id, question_id |-> c.duel.question_id,
     is_correct |-> c.is_correct, created_at |-> t]

IsBot(id) == id # None /\ id < 0

\* "Determine winner" with `not x or not x.is_correct` written as
\* `x and not x.is_correct`: a correct submission wins only over an incorrect
\* attempt of the other side.
DetermineWinner_needsOtherAttempt(c, challenger_attempt, opponent_attempt, bot_result) ==
    LET duel == c.duel
        first_correct ==
            IF c.is_correct
            THEN IF c.user_id = duel.challenger_id
                 THEN IF opponent_attempt # NoAttempt /\ ~opponent_attempt.is_correct
                      THEN c.user_id ELSE None
                 ELSE IF challenger_attempt # NoAttempt /\ ~challenger_attempt.is_correct
                      THEN c.user_id ELSE None
            ELSE None
    IN  IF duel.opponent_id # None /\ duel.opponent_id < 0
        THEN IF c.is_correct /\ ~bot_result.is_correct THEN c.user_id
             ELSE IF ~c.is_correct /\ bot_result.is_correct THEN duel.opponent_id
             ELSE IF c.is_correct /\ bot_result.is_correct
                  THEN IF c.time_taken < bot_result.time_taken
                       THEN c.user_id ELSE duel.opponent_id
                  ELSE first_correct
        ELSE first_correct

\* "Determine winner" without the test of the verdict of the judge.
DetermineWinner_ignoresVerdict(c, challenger_attempt, opponent_attempt, bot_result) ==
    LET duel == c.duel
        first_correct ==
            IF c.user_id = duel.challenger_id
            THEN IF opponent_attempt = NoAttempt \/ ~opponent_attempt.is_correct
                 THEN c.user_id ELSE None
            ELSE IF challenger_attempt = NoAttempt \/ ~challenger_attempt.is_correct
                 THEN c.user_id ELSE None
    IN  IF duel.opponent_id # None /\ duel.opponent_id < 0
        THEN IF c.is_correct /\ ~bot_result.is_correct THEN c.user_id
             ELSE IF ~c.is_correct /\ bot_result.is_correct THEN duel.opponent_id
             ELSE IF c.is_correct /\ bot_result.is_correct
                  THEN IF c.time_taken < bot_result.time_taken
                       THEN c.user_id ELSE duel.opponent_id
                  ELSE first_correct
        ELSE first_correct

\* The comparison of the times with `<=`: equal times go to the user.
DetermineWinner_tieToUser(c, challenger_attempt, opponent_attempt, bot_result) ==
    LET duel == c.duel
        first_correct ==
            IF c.is_correct
            THEN IF c.user_id = duel.challenger_id
                 THEN IF opponent_attempt = NoAttempt \/ ~opponent_attempt.is_correct
                      THEN c.user_id ELSE None
                 ELSE IF challenger_attempt = NoAttempt \/ ~challenger_attempt.is_correct
                      THEN c.user_id ELSE None
            ELSE None
    IN  IF duel.opponent_id # None /\ duel.opponent_id < 0
        THEN IF c.is_correct /\ ~bot_result.is_correct THEN c.user_id
             ELSE IF ~c.is_correct /\ bot_result.is_correct THEN duel.opponent_id
             ELSE IF c.is_correct /\ bot_result.is_correct
                  THEN IF c.time_taken <= bot_result.time_taken
                       THEN c.user_id ELSE duel.opponent_id
                  ELSE first_correct
        ELSE first_correct

\* The "Determine winner" block followed by the "Handle bot opponent" block.
DetermineWinner(c, challenger_attempt, opponent_attempt, bot_result) ==
    LET duel == c.duel
        first_correct ==
            IF c.is_correct
            THEN IF c.user_id = duel.challenger_id
                 THEN IF opponent_attempt = NoAttempt \/ ~opponent_attempt.is_correct
                      THEN c.user_id ELSE None
                 ELSE IF challenger_attempt = NoAttempt \/ ~challenger_attempt.is_correct
                      THEN c.user_id ELSE None
            ELSE None
    IN  IF IsBot(duel.opponent_id)
        THEN IF c.is_correct /\ ~bot_result.is_correct THEN c.user_id
             ELSE IF ~c.is_correct /\ bot_result.is_correct THEN duel.opponent_id
             ELSE IF c.is_correct /\ bot_result.is_correct
                  THEN IF c.time_taken < bot_result.time_taken
                       THEN c.user_id ELSE duel.opponent_id
                  ELSE first_correct
        ELSE first_correct

\* The completion test with `or` in the place of `and`.
ShouldComplete_eitherSubmitted(c, winner_id, challenger_attempt, opponent_attempt) ==
    \/ winner_id # None
    \/ challenger_attempt # NoAttempt
    \/ opponent_attempt # NoAttempt
    \/ c.duel.opponent_id < 0

\* "Complete duel if we have a winner or both submitted".
ShouldComplete(c, winner_id, challenger_attempt, opponent_attempt) ==
    \/ winner_id # None
    \/ /\ challenger_attempt # NoAttempt
       /\ (opponent_attempt # NoAttempt \/ c.duel.opponent_id < 0)

\* The bonus rounded up instead of truncated.
DuelBonusXp_roundedUp(base_xp) == base_xp + ((base_xp + 1) \div 2)

DuelBonusXp(base_xp) == base_xp + (base_xp \div 2)

\* The completion without `duel.status = DuelStatusEnum.COMPLETED`.
CompleteRow_keepsActive(row, c, winner_id, t) ==
    [row EXCEPT !.winner_id = IF winner_id # c.duel.winner_id THEN winner_id ELSE @,
                !.completed_at = t]

\* The UPDATE the session flushes for the loaded Duel object: the unit of
\* work writes the columns whose value differs from the loaded one, so a
\* winner_id of None (as loaded) is not written.
CompleteRow(row, c, winner_id, t) ==
    [row EXCEPT !.status = "COMPLETED",
                !.winner_id = IF winner_id # c.duel.winner_id THEN winner_id ELSE @,
                !.completed_at = t]

\* submit_solution paying the reward for every decided duel, to the caller.
Adjudicate_paysOnAnyWinner(ds, atts, xps, t, c) ==
    LET duel == c.duel
        question == Question(duel.question_id)
        attempt == NewAttempt(c, t)
        visible == IF AutoFlush THEN atts \cup {attempt} ELSE atts
        challenger_attempts ==
            LatestAttempts(visible, duel.challenger_id, duel.question_id,
                           duel.created_at)
        opponent_attempts ==
            IF duel.opponent_id # None /\ duel.opponent_id > 0
            THEN LatestAttempts(visible, duel.opponent_id, duel.question_id,
                                duel.created_at)
            ELSE {NoAttempt}
        bot_results == IF IsBot(duel.opponent_id)
                       THEN SimulateBotSolution(duel.opponent_id, c.is_correct)
                       ELSE {NoBotResult}
        Outcome(ca, oa, br) ==
            LET winner_id == DetermineWinner(c, ca, oa, br)
                complete == ShouldComplete(c, winner_id, ca, oa)
                xp_awarded == IF complete /\ winner_id # None
                              THEN DuelBonusXp(question.xp_reward) ELSE 0
                rows == DuelsById(ds, duel.id)
            IN  [duels |-> IF complete
                           THEN (ds \ rows) \cup
                                {CompleteRow(r, c, winner_id, t) : r \in rows}
                           ELSE ds,
                 attempts |-> atts \cup {attempt},
                 xp |-> IF xp_awarded > 0
                        THEN [xps EXCEPT ![c.user_id] = @ + xp_awarded]
                        ELSE xps,
                 resp |-> [duel_id |-> duel.id,
                           winner_id |-> winner_id,
                           xp_awarded |-> IF winner_id = c.user_id
                                          THEN xp_awarded ELSE 0]]
    IN  {Outcome(ca, oa, br) : ca \in challenger_attempts,
                               oa \in opponent_attempts,
                               br \in bot_results}

\* Everything submit_solution does after the judge returned, for the call c
\* at time t on the tables ds, atts and the xp column xps.
Adjudicate(ds, atts, xps, t, c) ==
    LET duel == c.duel
        question == Question(duel.question_id)
        attempt == NewAttempt(c, t)
        visible == IF AutoFlush THEN atts \cup {attempt} ELSE atts
        challenger_attempts ==
            LatestAttempts(visible, duel.challenger_id, duel.question_id,
                           duel.created_at)
        opponent_attempts ==
            IF duel.opponent_id # None /\ duel.opponent_id > 0
            THEN LatestAttempts(visible, duel.opponent_id, duel.question_id,
                                duel.created_at)
            ELSE {NoAttempt}
        bot_results == IF IsBot(duel.opponent_id)
                       THEN SimulateBotSolution(duel.opponent_id, c.is_correct)
                       ELSE {NoBotResult}
        Outcome(ca, oa, br) ==
            LET winner_id == DetermineWinner(c, ca, oa, br)
                complete == ShouldComplete(c, winner_id, ca, oa)
                xp_awarded == IF complete /\ winner_id # None /\ winner_id > 0
                              THEN DuelBonusXp(question.xp_reward) ELSE 0
                rows == DuelsById(ds, duel.id)
            IN  [duels |-> IF complete
                           THEN (ds \ rows) \cup
                                {CompleteRow(r, c, winner_id, t) : r \in rows}
                           ELSE ds,
                 attempts |-> atts \cup {attempt},
                 xp |-> IF xp_awarded > 0
                        THEN [xps EXCEPT ![winner_id] = @ + xp_awarded]
                        ELSE xps,
                 resp |-> [duel_id |-> duel.id,
                           winner_id |-> winner_id,
                           xp_awarded |-> IF winner_id = c.user_id
                                          THEN xp_awarded ELSE 0]]
    IN  {Outcome(ca, oa, br) : ca \in challenger_attempts,
                               oa \in opponent_attempts,
                               br \in bot_results}

\* The checks with the first status test refusing WAITING duels only.
SubmitError_waitingOnly(ds, u, id) ==
    IF DuelsById(ds, id) = {} THEN "Duel not found"
    ELSE LET duel == CHOOSE d \in DuelsById(ds, id) : TRUE
         IN  IF duel.status = "WAITING" THEN "Duel is not active"
             ELSE IF duel.challenger_id # u /\ duel.opponent_id # u
                  THEN "You are not a participant in this duel"
             ELSE IF duel.status = "COMPLETED" THEN "Duel is already completed"
             ELSE IF duel.question_id \notin QuestionIds THEN "Question not found"
             ELSE ""

\* The checks without the test that the caller is a side of the duel.
SubmitError_anyCaller(ds, u, id) ==
    IF DuelsById(ds, id) = {} THEN "Duel not found"
    ELSE LET duel == CHOOSE d \in DuelsById(ds, id) : TRUE
         IN  IF duel.status # "ACTIVE" THEN "Duel is not active"
             ELSE IF duel.status = "COMPLETED" THEN "Duel is already completed"
             ELSE IF duel.question_id \notin QuestionIds THEN "Question not found"
             ELSE ""

\* The checks of submit_solution before the judge is called: the error
\* message, or "" when the call goes on.
SubmitError(ds, u, id) ==
    IF DuelsById(ds, id) = {} THEN "Duel not found"
    ELSE LET duel == CHOOSE d \in DuelsById(ds, id) : TRUE
         IN  IF duel.status # "ACTIVE" THEN "Duel is not active"
             ELSE IF duel.challenger_id # u /\ duel.opponent_id # u
                  THEN "You are not a participant in this duel"
             ELSE IF duel.status = "COMPLETED" THEN "Duel is already completed"
             ELSE IF duel.question_id \notin QuestionIds THEN "Question not found"
             ELSE ""

\* ---- operations ---------------------------------------------------------
Init ==
    /\ duels = {}
    /\ nextId = 1
    /\ attempts = {}
    /\ xp = [u \in Users |-> 0]
    /\ now = 1
    /\ ticks = 0
    /\ pending = {}

\* The checks of create_duel without the test of the question type.
CreateError_anyType(ds, u, q) ==
    IF q \notin QuestionIds THEN "Question not found"
    ELSE IF ExistingDuels(ds, u) # {} THEN "You already have an active duel"
    ELSE ""

\* The checks of create_duel: the error message, or "" when the duel is
\* created.
CreateError(ds, u, q) ==
    IF q \notin QuestionIds THEN "Question not found"
    ELSE IF Question(q).type # "code"
         THEN "Only code questions can be used for duels"
    ELSE IF ExistingDuels(ds, u) # {} THEN "You already have an active duel"
    ELSE ""

\* The checks of join_duel without the test for the user's own duel.
JoinError_ownDuelAllowed(ds, u, id) ==
    IF DuelsById(ds, id) = {} THEN "Duel not found"
    ELSE LET duel == CHOOSE d \in DuelsById(ds, id) : TRUE
         IN  IF duel.status # "WAITING" THEN "Duel is not available for joining"
             ELSE IF duel.opponent_id # None THEN "Duel already has an opponent"
             ELSE IF ExistingDuels(ds, u) # {}
                  THEN "You already have an active duel"
             ELSE ""

\* The checks of join_duel: the error message, or "" when the user joins.
JoinError(ds, u, id) ==
    IF DuelsById(ds, id) = {} THEN "Duel not found"
    ELSE LET duel == CHOOSE d \in DuelsById(ds, id) : TRUE
         IN  IF duel.status # "WAITING" THEN "Duel is not available for joining"
             ELSE IF duel.challenger_id = u THEN "Cannot join your own duel"
             ELSE IF duel.opponent_id # None THEN "Duel already has an opponent"
             ELSE IF ExistingDuels(ds, u) # {}
                  THEN "You already have an active duel"
             ELSE ""

\* The results of create_duel(question_id = q) by user u at time t on the
\* table ds whose next primary key is nid: the ValueError raised, or the
\* table after the insert and the matchmaking. A call that fails a check
\* raises before it wrote anything: the table stays as it is.
CreateResults(ds, nid, t, u, q) ==
    IF CreateError(ds, u, q) # ""
    THEN {[duels |-> ds, nextId |-> nid, error |-> CreateError(ds, u, q)]}
    ELSE {[duels |-> r.duels, nextId |-> nid + 1, error |-> ""] :
             r \in AttemptMatchmaking(ds \cup {NewDuel(nid, u, q, t)}, nid, t)}

CreateDuel(u, q) ==
    /\ UNCHANGED <<attempts, xp, now, ticks, pending>>
    /\ \E o \in CreateResults(duels, nextId, now, u, q) :
         /\ o.nextId <= MaxDuels + 1
         /\ duels' = o.duels
         /\ nextId' = o.nextId

\* join_duel that stores the opponent and leaves the status as it is.
JoinDuel_keepsWaiting(u, id) ==
    /\ UNCHANGED <<nextId, attempts, xp, now, ticks, pending>>
    /\ IF JoinError(duels, u, id) # ""
       THEN UNCHANGED duels
       ELSE LET duel == CHOOSE d \in DuelsById(duels, id) : TRUE
                joined == [duel EXCEPT !.opponent_id = u]
            IN  duels' = (duels \ {duel}) \cup {joined}

\* The result of join_duel(id) by user u on the table ds: the ValueError
\* raised, with the table as it was, or the table after the commit.
JoinResults(ds, u, id) ==
    IF JoinError(ds, u, id) # ""
    THEN {[duels |-> ds, error |-> JoinError(ds, u, id)]}
    ELSE LET duel == CHOOSE d \in DuelsById(ds, id) : TRUE
             joined == [duel EXCEPT !.opponent_id = u, !.status = "ACTIVE"]
         IN  {[duels |-> (ds \ {duel}) \cup {joined}, error |-> ""]}

JoinDuel(u, id) ==
    /\ UNCHANGED <<nextId, attempts, xp, now, ticks, pending>>
    /\ \E o \in JoinResults(duels, u, id) : duels' = o.duels

TryMatch(id) ==
    /\ UNCHANGED <<nextId, attempts, xp, now, ticks, pending>>
    /\ \E r \in AttemptMatchmaking(duels, id, now) :
         duels' = r.duels

\* cleanup_old_duels without the filter on the status.
CleanupOldDuels_anyStatus ==
    LET cutoff_time == now - CleanupSeconds
        old_duels == {d \in duels : d.created_at < cutoff_time}
    IN  /\ duels' = duels \ old_duels
        /\ UNCHANGED <<nextId, attempts, xp, now, ticks, pending>>

\* cleanup_old_duels counting the old duels without deleting them.
CleanupResult_countsOnly(ds, t) ==
    LET cutoff_time == t - CleanupSeconds
        old_duels == {d \in ds : d.status = "WAITING" /\ d.created_at < cutoff_time}
    IN  [duels |-> ds, count |-> Cardinality(old_duels)]

\* cleanup_old_duels with `created_at <= cutoff_time`.
CleanupResult_atCutoff(ds, t) ==
    LET cutoff_time == t - CleanupSeconds
        old_duels == {d \in ds : d.status = "WAITING" /\ d.created_at <= cutoff_time}
    IN  [duels |-> ds \ old_duels, count |-> Cardinality(old_duels)]

\* The table cleanup_old_duels leaves at time t and the count it returns.
CleanupResult(ds, t) ==
    LET cutoff_time == t - CleanupSeconds
        old_duels == {d \in ds : d.status = "WAITING" /\ d.created_at < cutoff_time}
    IN  [duels |-> ds \ old_duels, count |-> Cardinality(old_duels)]

CleanupOldDuels ==
    /\ duels' = CleanupResult(duels, now).duels
    /\ UNCHANGED <<nextId, attempts, xp, now, ticks, pending>>

Tick ==
    /\ ticks < MaxTicks
    /\ now' = now + TickSchedule[(ticks % Len(TickSchedule)) + 1]
    /\ ticks' = ticks + 1
    /\ UNCHANGED <<duels, nextId, attempts, xp, pending>>

\* The results of submit_solution(id, u, code, time_taken = tt) run to
\* completion at time t, ok telling whether the judge finds the code
\* correct: a call that fails a check changes nothing.
SubmitResults(ds, atts, xps, t, u, id, ok, tt) ==
    IF SubmitError(ds, u, id) # ""
    THEN {[duels |-> ds, attempts |-> atts, xp |-> xps,
           resp |-> [duel_id |-> id, winner_id |-> None, xp_awarded |-> 0]]}
    ELSE Adjudicate(ds, atts, xps, t,
                    Call(u, CHOOSE d \in DuelsById(ds, id) : TRUE, ok, tt))

SubmitSolution(u, id, ok, tt) ==
    /\ UNCHANGED <<nextId, now, ticks, pending>>
    /\ \E o \in SubmitResults(duels, attempts, xp, now, u, id, ok, tt) :
         /\ Cardinality(o.attempts) <= MaxAttempts
         /\ duels' = o.duels
         /\ attempts' = o.attempts
         /\ xp' = o.xp

\* The ways a call of the judge fails: execute_code raises (the Judge0 API
\* is unreachable, answers with an error or does not finish in time), or it
\* returns a result whose status is "timeout" or "error" and whose
\* is_correct is false (the sandbox did not finish or could not be run).
JudgeFailures == {"raised", "timeout", "error"}

\* The results of submit_solution when the call of the judge fails in the
\* way f: an exception of execute_code leaves submit_solution at the await,
\* before anything is written; of a returned result submit_solution reads
\* is_correct and nothing else.
JudgeFailedResults(ds, atts, xps, t, u, id, f, tt) ==
    IF SubmitError(ds, u, id) # "" \/ f = "raised"
    THEN {[duels |-> ds, attempts |-> atts, xp |-> xps,
           resp |-> [duel_id |-> id, winner_id |-> None, xp_awarded |-> 0]]}
    ELSE Adjudicate(ds, atts, xps, t,
                    Call(u, CHOOSE d \in DuelsById(ds, id) : TRUE, FALSE, tt))

SubmitJudgeFailed(u, id, f, tt) ==
    /\ UNCHANGED <<nextId, now, ticks, pending>>
    /\ \E o \in JudgeFailedResults(duels, attempts, xp, now, u, id, f, tt) :
         /\ Cardinality(o.attempts) <= MaxAttempts
         /\ duels' = o.duels
         /\ attempts' = o.attempts
         /\ xp' = o.xp

\* The statements of award_xp that a failure of the database (a lock that
\* is not granted in time, a deadlock, a serialization failure) makes raise:
\* the query for the user and the commit. The user is the caller, whose row
\* the request has loaded, so the branch for a missing user is not taken.
XpFailures == {"query", "commit"}

\* The results of a correct submission whose winner is to be credited when
\* the statement f of award_xp raises: award_xp catches the exception and
\* rolls back the session it shares with submit_solution, which holds the
\* new attempt and the completion of the duel; submit_solution goes on,
\* commits nothing and answers with the winner it has determined.
XpFailedResults(ds, atts, xps, t, u, id, tt, f) ==
    {[duels |-> ds, attempts |-> atts, xp |-> xps, resp |-> o.resp] :
        o \in {r \in SubmitResults(ds, atts, xps, t, u, id, TRUE, tt) :
                  r.xp # xps}}

SubmitXpFailed(u, id, tt, f) ==
    /\ UNCHANGED <<nextId, now, ticks, pending>>
    /\ \E o \in XpFailedResults(duels, attempts, xp, now, u, id, tt, f) :
         /\ duels' = o.duels
         /\ attempts' = o.attempts
         /\ xp' = o.xp

\* submit_solution up to the await of execute_code.
SubmitBegin(u, id, ok, tt) ==
    /\ UNCHANGED <<duels, nextId, attempts, xp, now, ticks>>
    /\ IF SubmitError(duels, u, id) # ""
       THEN UNCHANGED pending
       ELSE LET c == Call(u, CHOOSE d \in DuelsById(duels, id) : TRUE, ok, tt)
            IN  /\ Cardinality(pending \cup {c}) <= MaxPending
                /\ pending' = pending \cup {c}

\* submit_solution from the return of execute_code to its own return.
FinishCall(c) ==
    /\ c \in pending
    /\ UNCHANGED <<nextId, now, ticks>>
    /\ \E o \in Adjudicate(duels, attempts, xp, now, c) :
         /\ Cardinality(o.attempts) <= MaxAttempts
         /\ duels' = o.duels
         /\ attempts' = o.attempts
         /\ xp' = o.xp
         /\ pending' = pending \ {c}

SubmitFinish == \E c \in pending : FinishCall(c)

DuelIds == 1 .. MaxDuels

Next ==
    \/ \E u \in Users, q \in RequestedQuestionIds : CreateDuel(u, q)
    \/ \E u \in Users, id \in DuelIds : JoinDuel(u, id)
    \/ \E id \in DuelIds : TryMatch(id)
    \/ \E u \in Users, id \in DuelIds, ok \in BOOLEAN, tt \in TimesTaken :
         SubmitSolution(u, id, ok, tt)
    \/ \E u \in Users, id \in DuelIds, f \in JudgeFailures, tt \in TimesTaken :
         SubmitJudgeFailed(u, id, f, tt)
    \/ \E u \in Users, id \in DuelIds, tt \in TimesTaken, f \in XpFailures :
         SubmitXpFailed(u, id, tt, f)
    \/ CleanupOldDuels
    \/ Tick

Spec == Init /\ [][Next]_vars

\* Two participants in an ACTIVE duel, as create_duel by user 1 followed by
\* join_duel by user 2 leaves the tables.
InitAsync ==
    /\ duels = {[NewDuel(1, 1, 1, 1) EXCEPT !.opponent_id = 2,
                                            !.status = "ACTIVE"]}
    /\ nextId = 2
    /\ attempts = {}
    /\ xp = [u \in Users |-> 0]
    /\ now = 1
    /\ ticks = 0
    /\ pending = {}

\* Submissions to the duel that overlap at the judge.
NextAsync ==
    \/ \E u \in Users, id \in DuelIds, ok \in BOOLEAN, tt \in TimesTaken :
         SubmitBegin(u, id, ok, tt)
    \/ SubmitFinish
    \/ Tick

SpecAsync == InitAsync /\ [][NextAsync]_vars

\* ---- create, join and matchmaking across worker processes ----------------
\* The production settings run several worker processes on one database:
\* the statements of create_duel, join_duel and _attempt_matchmaking of one
\* process interleave with those of another between the queries that check
\* and the commit that writes. A call in flight holds what it decided from
\* the rows it read.
Claim(op, u, q, write, delete) ==
    [op |-> op, user_id |-> u, question_id |-> q, write |-> write,
     delete |-> delete]

\* The UPDATE of a flush: the columns the call assigned, on the row with the
\* id of the object it loaded.
ApplyWrite(ds, w) ==
    {IF d.id = w.id
     THEN [d EXCEPT !.opponent_id = w.opponent_id, !.status = w.status]
     ELSE d : d \in ds}

\* create_duel up to the check for an existing duel.
CreateBegin(u, q) ==
    /\ UNCHANGED <<duels, nextId, attempts, xp, now, ticks>>
    /\ IF CreateError(duels, u, q) # ""
       THEN UNCHANGED pending
       ELSE LET c == Claim("create", u, q, NewDuel(None, u, q, None), {})
            IN  /\ Cardinality(pending \cup {c}) <= MaxPending
                /\ pending' = pending \cup {c}

\* create_duel from the insert on.
CreateFinish(c) ==
    /\ c \in pending /\ c.op = "create"
    /\ nextId <= MaxDuels
    /\ UNCHANGED <<attempts, xp, now, ticks>>
    /\ nextId' = nextId + 1
    /\ \E r \in AttemptMatchmaking(
                    duels \cup {NewDuel(nextId, c.user_id, c.question_id, now)},
                    nextId, now) :
         duels' = r.duels
    /\ pending' = pending \ {c}

\* join_duel up to the check for an existing duel.
JoinBegin(u, id) ==
    /\ UNCHANGED <<duels, nextId, attempts, xp, now, ticks>>
    /\ IF JoinError(duels, u, id) # ""
       THEN UNCHANGED pending
       ELSE LET duel == CHOOSE d \in DuelsById(duels, id) : TRUE
                c == Claim("join", u, duel.question_id,
                           [duel EXCEPT !.opponent_id = u, !.status = "ACTIVE"],
                           {})
            IN  /\ Cardinality(pending \cup {c}) <= MaxPending
                /\ pending' = pending \cup {c}

\* _attempt_matchmaking up to the decision: the peer or the bot it found.
MatchBegin(id) ==
    /\ UNCHANGED <<duels, nextId, attempts, xp, now, ticks>>
    /\ \E r \in AttemptMatchmaking(duels, id, now) :
         IF ~r.matched
         THEN UNCHANGED pending
         ELSE LET row == CHOOSE d \in DuelsById(r.duels, id) : TRUE
                  gone == {d.id : d \in duels} \ {d.id : d \in r.duels}
                  c == Claim("match", None, row.question_id, row, gone)
              IN  /\ Cardinality(pending \cup {c}) <= MaxPending
                  /\ pending' = pending \cup {c}

\* The commit of join_duel or _attempt_matchmaking: the UPDATE of a row that
\* is gone raises StaleDataError and the transaction is rolled back.
WriteFinish(c) ==
    /\ c \in pending /\ c.op \in {"join", "match"}
    /\ UNCHANGED <<nextId, attempts, xp, now, ticks>>
    /\ pending' = pending \ {c}
    /\ IF DuelsById(duels, c.write.id) = {}
       THEN UNCHANGED duels
       ELSE duels' = {d \in ApplyWrite(duels, c.write) : d.id \notin c.delete}

\* cleanup_old_duels up to the end of its scan: the ids of the WAITING duels
\* it read as older than the threshold. A scan that finds nothing commits an
\* empty transaction.
CleanupBegin ==
    /\ UNCHANGED <<duels, nextId, attempts, xp, now, ticks>>
    /\ LET old_duels == duels \ CleanupResult(duels, now).duels
       IN  IF old_duels = {}
           THEN UNCHANGED pending
           ELSE LET c == Claim("cleanup", None, None,
                               NewDuel(None, None, None, None),
                               {d.id : d \in old_duels})
                IN  /\ Cardinality(pending \cup {c}) <= MaxPending
                    /\ pending' = pending \cup {c}

\* The commit of cleanup_old_duels: one DELETE by primary key for each duel
\* of the scan (a row that is gone already gives a warning, not an error).
CleanupFinish(c) ==
    /\ c \in pending /\ c.op = "cleanup"
    /\ UNCHANGED <<nextId, attempts, xp, now, ticks>>
    /\ pending' = pending \ {c}
    /\ duels' = {d \in duels : d.id \notin c.delete}

CreateCommit == \E c \in pending : CreateFinish(c)

WriteCommit == \E c \in pending : WriteFinish(c)

CleanupCommit == \E c \in pending : CleanupFinish(c)

NextRace ==
    \/ \E u \in Users, q \in RequestedQuestionIds : CreateBegin(u, q)
    \/ \E u \in Users, id \in DuelIds : JoinBegin(u, id)
    \/ \E id \in DuelIds : MatchBegin(id)
    \/ CleanupBegin
    \/ CreateCommit
    \/ WriteCommit
    \/ CleanupCommit
    \/ Tick

SpecRace == Init /\ [][NextRace]_vars

\* ---- the operations the routes reach ------------------------------------
\* The filter of get_available_duels without the test on the challenger.
AvailableDuels_ownIncluded(ds, u) ==
    {d \in ds : /\ d.status = "WAITING"
                /\ d.opponent_id = None}

\* The rows get_available_duels lists for user u (its limit of 10 rows is
\* above the number of rows of the model).
AvailableDuels(ds, u) ==
    {d \in ds : /\ d.status = "WAITING"
                /\ d.challenger_id # u
                /\ d.opponent_id = None}

\* The values of the parameter limit: the default of the route, and one row.
Limits == {1, 10}

\* The lists get_available_duels(u, limit) can return, as sets of rows: the
\* newest rows of the filter, as many as the limit allows (rows with equal
\* created_at come in any order).
AvailableDuelsPage(ds, u, limit) ==
    LET rows == AvailableDuels(ds, u)
    IN  {page \in SUBSET rows :
            /\ Cardinality(page) = Min(limit, Cardinality(rows))
            /\ \A d \in page, e \in rows \ page : e.created_at <= d.created_at}

\* get_available_duels runs queries only.
GetAvailableDuels(u) ==
    /\ \E limit \in Limits : AvailableDuelsPage(duels, u, limit) \subseteq SUBSET duels
    /\ UNCHANGED vars

\* The routes of routers/duels.py: _attempt_matchmaking is called by
\* create_duel, on the duel it has just inserted, and by nothing else.
NextApi ==
    \/ \E u \in Users, q \in RequestedQuestionIds : CreateDuel(u, q)
    \/ \E u \in Users, id \in DuelIds : JoinDuel(u, id)
    \/ \E u \in Users, id \in DuelIds, ok \in BOOLEAN, tt \in TimesTaken :
         SubmitSolution(u, id, ok, tt)
    \/ \E u \in Users, id \in DuelIds, f \in JudgeFailures, tt \in TimesTaken :
         SubmitJudgeFailed(u, id, f, tt)
    \/ \E u \in Users, id \in DuelIds, tt \in TimesTaken, f \in XpFailures :
         SubmitXpFailed(u, id, tt, f)
    \/ \E u \in Users : GetAvailableDuels(u)
    \/ CleanupOldDuels
    \/ Tick

\* Time passes, and the clients keep invoking the triggers: creations and
\* the maintenance route. Nobody is obliged to join.
SpecApi ==
    /\ Init
    /\ [][NextApi]_vars
    /\ WF_vars(Tick)
    /\ WF_vars(CleanupOldDuels)
    /\ WF_vars(\E u \in Users, q \in RequestedQuestionIds : CreateDuel(u, q))

TypeOK ==
    /\ nextId \in 1 .. MaxDuels + 1
    /\ \A d \in duels : d.status \in {"WAITING", "ACTIVE", "COMPLETED"}
    /\ Cardinality(attempts) <= MaxAttempts
    /\ Cardinality(pending) <= MaxPending

\* ---- helpers of the properties ------------------------------------------
CodeQuestionIds == {q \in QuestionIds : Question(q).type = "code"}

Open(d) == d.status \in {"WAITING", "ACTIVE"}

IsSide(d, u) == d.challenger_id = u \/ d.opponent_id = u

OtherSide(d, u) == IF d.challenger_id = u THEN d.opponent_id ELSE d.challenger_id

HumanDuel(d) == d.opponent_id \in Users

\* The attempts of user u on the question of duel d that the adjudication
\* of d takes into account.
AttemptsSince(d, u) ==
    {a \in attempts : /\ a.user_id = u
                      /\ a.question_id = d.question_id
                      /\ a.created_at >= d.created_at}

\* ---- C1 ------------------------------------------------------------------
\* C1: whatever operations have run, every user is challenger or opponent of
\* at most one WAITING or ACTIVE duel; create_duel by a user who holds such a
\* duel is refused with "You already have an active duel", and no step adds
\* a duel whose challenger already held an open duel.
C1_Exclusivity ==
    /\ [](\A u \in Users :
            /\ Cardinality({d \in duels : IsSide(d, u) /\ Open(d)}) <= 1
            /\ (\E d \in duels : IsSide(d, u) /\ Open(d)) =>
                  \A q \in CodeQuestionIds :
                      CreateError(duels, u, q) = "You already have an active duel")
    /\ [][\A u \in Users :
            (\E d \in duels : IsSide(d, u) /\ Open(d)) =>
                \A e \in duels' : e.challenger_id = u =>
                    \E d \in duels : d.id = e.id]_vars

\* A user who has a finished duel behind them and holds an open one as the
\* opponent.
C1_Witness ==
    \E u \in Users :
        /\ \E d \in duels : d.opponent_id = u /\ Open(d)
        /\ \E d \in duels : IsSide(d, u) /\ d.status = "COMPLETED"

\* The winner_id and the status of duel id in the table ds.
WinnerIn(ds, id) == {d.winner_id : d \in DuelsById(ds, id)}
StatusIn(ds, id) == {d.status : d \in DuelsById(ds, id)}

\* ---- C2 ------------------------------------------------------------------
\* C2: when the two sides of an ACTIVE duel submit concurrently, one call
\* completes the duel and the other makes no change: a call that returns
\* from the judge when the other side has completed the duel (the completed_at
\* of the row is not the timestamp of an attempt of the caller) leaves the
\* row, with its status, winner_id and completed_at, as it is.
C2_OneCompletion ==
    [][\A c \in pending \ pending' :
         \A d \in DuelsById(duels, c.duel.id) :
            (/\ d.status = "COMPLETED"
             /\ ~\E a \in attempts : /\ a.user_id = c.user_id
                                     /\ a.created_at = d.completed_at) =>
                d \in duels']_vars

\* ---- C3 ------------------------------------------------------------------
\* C3: once a duel is COMPLETED, submit_solution by any user is refused with
\* "Duel is not active", and no operation changes its status, winner_id or
\* completed_at.
C3_MonotonicCompletion ==
    /\ [](\A d \in duels : d.status = "COMPLETED" =>
            \A u \in Users : SubmitError(duels, u, d.id) = "Duel is not active")
    /\ [][\A d \in duels : d.status = "COMPLETED" =>
            \E e \in duels' : /\ e.id = d.id
                              /\ e.status = "COMPLETED"
                              /\ e.winner_id = d.winner_id
                              /\ e.completed_at = d.completed_at]_vars

\* A duel that was completed at an earlier instant.
C3_Witness ==
    \E d \in duels : /\ d.status = "COMPLETED"
                     /\ d.winner_id # None
                     /\ d.completed_at < now

\* ---- C4 ------------------------------------------------------------------
\* C4: in an ACTIVE duel of two users, a correct submission by a side whose
\* adversary has no correct attempt since the creation of the duel completes
\* the duel with the sender as winner, for every elapsed time reported.
C4_FirstCorrectWins ==
    \A d \in duels : (d.status = "ACTIVE" /\ HumanDuel(d)) =>
        \A u \in {d.challenger_id, d.opponent_id} :
            (\A a \in AttemptsSince(d, OtherSide(d, u)) : ~a.is_correct) =>
                \A tt \in TimesTaken :
                    \A o \in SubmitResults(duels, attempts, xp, now, u, d.id, TRUE, tt) :
                        /\ o.resp.winner_id = u
                        /\ WinnerIn(o.duels, d.id) = {u}
                        /\ StatusIn(o.duels, d.id) = {"COMPLETED"}

\* Scenario B: the opponent submitted incorrect code, the challenger won.
C4_Witness ==
    \E d \in duels :
        /\ d.status = "COMPLETED" /\ HumanDuel(d)
        /\ d.winner_id = d.challenger_id
        /\ AttemptsSince(d, d.opponent_id) # {}
        /\ \A a \in AttemptsSince(d, d.opponent_id) : ~a.is_correct

\* ---- C5 ------------------------------------------------------------------
\* The table of duels after the side `first` and then the side `second` of
\* duel id submitted correct code with the elapsed times t1 and t2.
AfterBothCorrect(id, first, t1, second, t2) ==
    UNION {{r2.duels : r2 \in SubmitResults(r1.duels, r1.attempts, r1.xp, now,
                                            second, id, TRUE, t2)} :
           r1 \in SubmitResults(duels, attempts, xp, now, first, id, TRUE, t1)}

NoCorrectAttempt(d) ==
    \A u \in {d.challenger_id, d.opponent_id} :
        \A a \in AttemptsSince(d, u) : ~a.is_correct

C6_CompletedHasWinner ==
    \A d \in duels : d.status = "COMPLETED" => d.winner_id # None

\* C6 (amended): a COMPLETED duel has a winner_id, or both sides have
\* submitted: the challenger has an attempt since the creation of the duel
\* and the opponent is a bot or has one too.
C6_CompletedWinnerOrBothSubmitted ==
    \A d \in duels : (d.status = "COMPLETED" /\ d.winner_id = None) =>
        /\ AttemptsSince(d, d.challenger_id) # {}
        /\ (IsBot(d.opponent_id) \/ AttemptsSince(d, d.opponent_id) # {})

\* A duel of two users completed without a winner by incorrect submissions.
C6_Witness ==
    \E d \in duels :
        /\ d.status = "COMPLETED" /\ d.winner_id = None /\ HumanDuel(d)
        /\ \A u \in {d.challenger_id, d.opponent_id} :
               \A a \in AttemptsSince(d, u) : ~a.is_correct

\* ---- C7 ------------------------------------------------------------------
\* C7: in every step a WAITING duel stays WAITING, becomes ACTIVE or is
\* deleted; an ACTIVE duel stays ACTIVE or becomes COMPLETED; a COMPLETED
\* duel stays COMPLETED; ACTIVE and COMPLETED duels are never deleted; a new
\* duel carries a fresh id and is WAITING, or ACTIVE when the matchmaking of
\* its create_duel found an opponent at once.
C7_StateMachine ==
    [][/\ \A d \in duels :
            LET after == StatusIn(duels', d.id)
            IN  /\ d.status = "WAITING" => after \subseteq {"WAITING", "ACTIVE"}
                /\ d.status = "ACTIVE" =>
                       after # {} /\ after \subseteq {"ACTIVE", "COMPLETED"}
                /\ d.status = "COMPLETED" => after = {"COMPLETED"}
       /\ \A e \in duels' :
            DuelsById(duels, e.id) = {} =>
                /\ e.id = nextId /\ nextId' = nextId + 1
                /\ e.status \in {"WAITING", "ACTIVE"}]_vars

\* A duel went all the way to COMPLETED and another one was deleted.
C7_Witness ==
    /\ \E d \in duels : d.status = "COMPLETED"
    /\ Cardinality(duels) < nextId - 1

\* ---- C8 ------------------------------------------------------------------
\* C8: a duel has no opponent_id exactly when it is WAITING.
C8_OpponentIffNotWaiting ==
    \A d \in duels : (d.opponent_id = None) <=> (d.status = "WAITING")

\* One duel got a bot by matchmaking, another a user by join_duel or
\* matchmaking, and a third is still WAITING.
C8_Witness ==
    /\ \E d \in duels : IsBot(d.opponent_id)
    /\ \E d \in duels : HumanDuel(d) /\ d.status = "ACTIVE"

\* ---- C9 ------------------------------------------------------------------
\* C9: a duel with a winner_id is COMPLETED and has a completed_at; the
\* winner_id and the completed_at of a COMPLETED duel never change.
C9_WinnerStable ==
    /\ [](\A d \in duels : d.winner_id # None =>
            d.status = "COMPLETED" /\ d.completed_at # None)
    /\ [][\A d \in duels : d.status = "COMPLETED" =>
            /\ WinnerIn(duels', d.id) = {d.winner_id}
            /\ \A e \in DuelsById(duels', d.id) : e.completed_at = d.completed_at]_vars

\* ---- C10 -----------------------------------------------------------------
\* C10: the challenger of an ACTIVE or COMPLETED duel is not its opponent.
C10_NoSelfPairing ==
    \A d \in duels : d.status \in {"ACTIVE", "COMPLETED"} =>
        d.challenger_id # d.opponent_id

\* Within the first instant a duel was matched with a peer, whose own duel
\* was deleted, and a later duel was joined or matched.
C10_Witness ==
    /\ now = 1
    /\ Cardinality(duels) < nextId - 1
    /\ \E d \in duels : d.status \in {"ACTIVE", "COMPLETED"} /\ HumanDuel(d)

\* ---- C11 -----------------------------------------------------------------
\* C11: when calls of join_duel and _attempt_matchmaking on one WAITING duel
\* interleave, at most one of them moves the duel out of WAITING: a call that
\* commits when the duel it read as WAITING is no longer WAITING leaves the
\* row, with the opponent_id of the call that was first, as it is.
C11_OneClaimant ==
    [][\A c \in pending \ pending' :
         c.op \in {"join", "match"} =>
            \A d \in DuelsById(duels, c.write.id) :
                d.status # "WAITING" => d \in duels']_vars

\* ---- C12 -----------------------------------------------------------------
\* C12: when create_duel and join_duel calls of one user interleave, at most
\* one of them succeeds: no user is challenger or opponent of two WAITING or
\* ACTIVE duels.
C12_AtomicExclusivity ==
    \A u \in Users :
        Cardinality({d \in duels : IsSide(d, u) /\ Open(d)}) <= 1

WaitingAges == {0, 29, 30, 31, 301}

\* C14: _attempt_matchmaking on a WAITING duel with no eligible peer, at any
\* age of the duel: past 30 seconds it returns true and the duel is ACTIVE
\* with opponent_id = -difficulty of its question (a tier in 1..5), every
\* other row as it was; up to 30 seconds it returns false and the table is
\* as it was.
C14_BotFallback ==
    \A d \in duels : (d.status = "WAITING" /\ PotentialOpponentDuels(duels, d) = {}) =>
        \A age \in WaitingAges :
            /\ Question(d.question_id).difficulty \in 1 .. 5
            /\ AttemptMatchmaking(duels, d.id, d.created_at + age) =
                 IF age > 30
                 THEN {[duels |-> (duels \ {d}) \cup
                                  {[d EXCEPT !.opponent_id =
                                                 -(Question(d.question_id).difficulty),
                                             !.status = "ACTIVE"]},
                        matched |-> TRUE]}
                 ELSE {[duels |-> duels, matched |-> FALSE]}

\* One duel got its bot, and a younger duel is WAITING with no peer.
C14_Witness ==
    /\ \E d \in duels : /\ d.status = "ACTIVE"
                        /\ d.opponent_id = -(Question(d.question_id).difficulty)
    /\ \E d \in duels : /\ d.status = "WAITING"
                        /\ now - d.created_at <= 30
                        /\ PotentialOpponentDuels(duels, d) = {}

\* ---- C15 -----------------------------------------------------------------
\* C15: _attempt_matchmaking on a WAITING duel D of a table that holds one
\* more WAITING row than the program has stored (the row a create_duel has
\* just inserted, for any user and any code question): when WAITING duels on
\* the question of D by another creator and without opponent exist, the
\* result is, for one of them, D' : D ACTIVE with opponent_id = creator of
\* D', D' deleted, every other row as it was; when none exists, D gets no
\* user as opponent, so a duel on another question or by the creator of D is
\* never the peer.
C15_PeerMatching ==
    \A u \in Users, q \in CodeQuestionIds :
        LET ds == duels \cup {NewDuel(nextId, u, q, now)}
        IN  \A D \in ds : D.status = "WAITING" =>
                LET peers == {p \in ds : /\ p.id # D.id
                                         /\ p.status = "WAITING"
                                         /\ p.question_id = D.question_id
                                         /\ p.challenger_id # D.challenger_id
                                         /\ p.opponent_id = None}
                IN  IF peers # {}
                    THEN AttemptMatchmaking(ds, D.id, now) =
                           {[duels |-> (ds \ {D, p}) \cup
                                       {[D EXCEPT !.opponent_id = p.challenger_id,
                                                  !.status = "ACTIVE"]},
                             matched |-> TRUE] : p \in peers}
                    ELSE \A r \in AttemptMatchmaking(ds, D.id, now) :
                            \A e \in DuelsById(r.duels, D.id) :
                                e.opponent_id \notin Users

\* The second duel created was matched with the first, which is gone, before
\* any time passed.
C15_Witness ==
    /\ ticks = 0
    /\ DuelsById(duels, 1) = {}
    /\ \E d \in DuelsById(duels, 2) :
          d.status = "ACTIVE" /\ d.opponent_id \in Users \ {d.challenger_id}

\* ---- C16 -----------------------------------------------------------------
\* C16 (scenario A): for a WAITING duel on question 1 (difficulty 3, reward
\* 30) with no peer, _attempt_matchmaking at the age of 31 s makes it ACTIVE
\* against the bot -3; a correct submission of the challenger with 5 s then
\* completes it with the challenger as winner and 45 XP credited and
\* reported, whatever the simulated solution of the bot is.
C16_ScenarioA ==
    \A d \in duels :
        (/\ d.status = "WAITING"
         /\ d.question_id = 1
         /\ PotentialOpponentDuels(duels, d) = {}) =>
            LET t == d.created_at + 31
                u == d.challenger_id
            IN  \A r \in AttemptMatchmaking(duels, d.id, t) :
                    /\ r.matched
                    /\ {<<e.opponent_id, e.status>> : e \in DuelsById(r.duels, d.id)}
                           = {<<-3, "ACTIVE">>}
                    /\ \A o \in SubmitResults(r.duels, attempts, xp, t, u, d.id, TRUE, 5) :
                           /\ StatusIn(o.duels, d.id) = {"COMPLETED"}
                           /\ WinnerIn(o.duels, d.id) = {u}
                           /\ o.xp = [xp EXCEPT ![u] = @ + 45]
                           /\ o.resp.winner_id = u
                           /\ o.resp.xp_awarded = 45

\* The scenario has run: the duel on question 1, matched with the bot -3 at
\* the age of 31 s, was won by its challenger at once, who holds 45 XP.
C16_Witness ==
    \E d \in duels :
        /\ d.question_id = 1 /\ d.opponent_id = -3
        /\ d.status = "COMPLETED" /\ d.winner_id = d.challenger_id
        /\ d.completed_at = d.created_at + 31
        /\ xp[d.challenger_id] = 45

\* ---- C17 -----------------------------------------------------------------
\* C17: a submission that decides a user as winner credits that user, and
\* nobody else, with the reward of the question plus half of it rounded down,
\* and completes the duel; a submission that decides no user as winner
\* credits nobody; the xp_awarded of the response is that amount when the
\* caller is the winner and 0 otherwise. In every step the xp column changes
\* only for the winner of a duel that the step completes, by that amount.
C17_XpReward ==
    /\ [](\A d \in duels : d.status = "ACTIVE" =>
            \A u \in Users, ok \in BOOLEAN, tt \in TimesTaken :
                \A o \in SubmitResults(duels, attempts, xp, now, u, d.id, ok, tt) :
                    LET w == o.resp.winner_id
                        base == Question(d.question_id).xp_reward
                        reward == base + (base \div 2)
                    IN  /\ w \in Users =>
                              /\ o.xp = [xp EXCEPT ![w] = @ + reward]
                              /\ StatusIn(o.duels, d.id) = {"COMPLETED"}
                              /\ WinnerIn(o.duels, d.id) = {w}
                        /\ w \notin Users => o.xp = xp
                        /\ o.resp.xp_awarded = IF w = u THEN reward ELSE 0
                        /\ o.resp.xp_awarded # 0 => w = u)
    /\ [][xp' # xp =>
            \E d \in duels :
                LET base == Question(d.question_id).xp_reward
                IN  /\ d.status = "ACTIVE"
                    /\ \E e \in DuelsById(duels', d.id) :
                          /\ e.status = "COMPLETED"
                          /\ e.winner_id \in Users
                          /\ xp' = [xp EXCEPT ![e.winner_id] = @ + base + (base \div 2)]]_vars

\* The duel on question 2 (reward 15) was won by a user, who holds 22 XP,
\* and another duel ended with no user as winner.
C17_Witness ==
    /\ \E d \in duels : /\ d.question_id = 2 /\ d.status = "COMPLETED"
                        /\ d.winner_id \in Users /\ xp[d.winner_id] = 22
    /\ \E d \in duels : d.status = "COMPLETED" /\ d.winner_id \notin Users

\* ---- C18 -----------------------------------------------------------------
\* C18: the xp column has a value for users only, and a submission that the
\* bot wins credits nobody and reports no XP: in every step that completes a
\* duel with its bot as winner the xp column stays as it is.
C18_BotsNeverReceiveXp ==
    /\ [](/\ DOMAIN xp = Users
          /\ \A d \in duels : (d.status = "ACTIVE" /\ IsBot(d.opponent_id)) =>
                \A u \in Users, ok \in BOOLEAN, tt \in TimesTaken :
                    \A o \in SubmitResults(duels, attempts, xp, now, u, d.id, ok, tt) :
                        WinnerIn(o.duels, d.id) = {d.opponent_id} =>
                            /\ o.xp = xp
                            /\ o.resp.xp_awarded = 0)
    /\ [][\A d \in duels : d.status = "ACTIVE" =>
            \A e \in DuelsById(duels', d.id) :
                (e.status = "COMPLETED" /\ IsBot(e.winner_id)) => xp' = xp]_vars

\* A bot has won a duel, and no user holds any XP.
C18_Witness ==
    /\ \E d \in duels : d.status = "COMPLETED" /\ IsBot(d.winner_id)
    /\ \A u \in Users : xp[u] = 0

\* ---- C19 -----------------------------------------------------------------
\* The ages (seconds since created_at) at which cleanup_old_duels is
\* evaluated: on both sides of the threshold and at the threshold itself.
CleanupAges == {299, 300, 301}

\* C19: cleanup_old_duels, at the present time and at every time that gives
\* a stored duel an age around the threshold, deletes exactly the duels that
\* are WAITING and more than 300 seconds old, returns their number, and keeps
\* every other row as it is.
C19_CleanupFrame ==
    \A t \in {now} \cup {d.created_at + a : d \in duels, a \in CleanupAges} :
        LET r == CleanupResult(duels, t)
            reaped == {d \in duels : d.status = "WAITING" /\ t - d.created_at > 300}
        IN  /\ r.duels = duels \ reaped
            /\ r.count = Cardinality(reaped)
            /\ \A d \in duels :
                   (d.status # "WAITING" \/ t - d.created_at <= 300) => d \in r.duels

\* Cleanup has deleted one of two duels: the duel left has a bot as opponent
\* and is more than 300 seconds old.
C19_Witness ==
    /\ nextId = 3
    /\ \E d \in duels : /\ duels = {d}
                        /\ IsBot(d.opponent_id)
                        /\ now - d.created_at > 300

\* ---- C20 -----------------------------------------------------------------
\* C20: a second cleanup_old_duels right after a first (no duel created and
\* no time passed in between) returns 0 and leaves the table as the first
\* left it; when time has passed, the second call deletes exactly the
\* WAITING duels that have crossed the age of 300 seconds in between.
C20_IdempotentCleanup ==
    LET times == {now} \cup {d.created_at + a : d \in duels, a \in CleanupAges}
    IN  \A t1 \in times, t2 \in times : t1 <= t2 =>
            LET r1 == CleanupResult(duels, t1)
                r2 == CleanupResult(r1.duels, t2)
                crossed == {d \in duels : /\ d.status = "WAITING"
                                          /\ t1 - d.created_at <= 300
                                          /\ t2 - d.created_at > 300}
            IN  /\ r2.duels = r1.duels \ crossed
                /\ r2.count = Cardinality(crossed)
                /\ t1 = t2 => (r2.count = 0 /\ r2.duels = r1.duels)

\* Cleanup has deleted the second duel; the first, COMPLETED and more than
\* 300 seconds old, is left, and a further cleanup finds nothing to delete.
C20_Witness ==
    /\ nextId = 3
    /\ CleanupResult(duels, now).count = 0
    /\ \E d \in duels : /\ duels = {d}
                        /\ d.id = 1
                        /\ d.status = "COMPLETED"
                        /\ now - d.created_at > 300

\* ---- C21 -----------------------------------------------------------------
\* C21: when cleanup_old_duels interleaves with join_duel and
\* _attempt_matchmaking, its commit deletes only duels that are WAITING at
\* that moment: a duel of its scan that has left WAITING in between stays in
\* the table as it is.
C21_CleanupDeletesWaitingOnly ==
    [][\A c \in pending \ pending' :
         c.op = "cleanup" =>
            \A d \in duels :
                (d.id \in c.delete /\ d.status # "WAITING") => d \in duels']_vars

\* ---- C22 -----------------------------------------------------------------
\* C22: create_duel fails with "Question not found" when the question has no
\* row, with "Only code questions can be used for duels" when the question
\* is not of type code, and with "You already have an active duel" when the
\* creator is challenger or opponent of a WAITING or ACTIVE duel (the first
\* of the three that applies); a failing call leaves the table and the next
\* primary key as they are; a call that none of the three applies to raises
\* nothing and inserts one duel of the creator on the question.
C22_CreateErrors ==
    \A u \in Users, q \in RequestedQuestionIds :
        LET expected ==
                IF q \notin QuestionIds THEN "Question not found"
                ELSE IF Question(q).type # "code"
                     THEN "Only code questions can be used for duels"
                ELSE IF \E d \in duels : IsSide(d, u) /\ Open(d)
                     THEN "You already have an active duel"
                ELSE ""
        IN  \A o \in CreateResults(duels, nextId, now, u, q) :
                /\ o.error = expected
                /\ expected # "" => (o.duels = duels /\ o.nextId = nextId)
                /\ expected = "" =>
                       /\ o.nextId = nextId + 1
                       /\ \E e \in o.duels : /\ e.id = nextId
                                              /\ e.challenger_id = u
                                              /\ e.question_id = q

\* After a first duel was completed, the opponent of the second, ACTIVE
\* duel is refused for that reason, and would be refused for the question
\* first if it asked for a question that is not of type code.
C22_Witness ==
    /\ \E d \in duels : d.id = 1 /\ d.status = "COMPLETED"
    /\ \E u \in Users :
          /\ \E d \in duels : d.id = 2 /\ d.opponent_id = u /\ d.status = "ACTIVE"
          /\ \A o \in CreateResults(duels, nextId, now, u, 1) :
                 o.error = "You already have an active duel"
          /\ \A o \in CreateResults(duels, nextId, now, u, 3) :
                 o.error = "Only code questions can be used for duels"

\* ---- C23 -----------------------------------------------------------------
\* C23: join_duel fails with "Duel not found" for an id with no row, with
\* "Duel is not available for joining" or "Duel already has an opponent" for
\* a duel that is not WAITING or has an opponent, with "Cannot join your own
\* duel" for the challenger of a WAITING duel, and with "You already have an
\* active duel" for a user who is challenger or opponent of a WAITING or
\* ACTIVE duel (the first that applies); a failing call leaves every row as
\* it is; a call that none applies to raises nothing and leaves the duel
\* ACTIVE with the joiner as opponent_id, every other row as it was.
C23_JoinErrors ==
    \A u \in Users, id \in DuelIds :
        \A o \in JoinResults(duels, u, id) :
            IF DuelsById(duels, id) = {}
            THEN o.error = "Duel not found" /\ o.duels = duels
            ELSE \A d \in DuelsById(duels, id) :
                    LET expected ==
                            IF d.status # "WAITING"
                            THEN "Duel is not available for joining"
                            ELSE IF d.challenger_id = u
                                 THEN "Cannot join your own duel"
                            ELSE IF d.opponent_id # None
                                 THEN "Duel already has an opponent"
                            ELSE IF \E e \in duels : IsSide(e, u) /\ Open(e)
                                 THEN "You already have an active duel"
                            ELSE ""
                    IN  /\ o.error = expected
                        /\ expected # "" => o.duels = duels
                        /\ expected = "" =>
                               o.duels = (duels \ {d}) \cup
                                         {[d EXCEPT !.opponent_id = u,
                                                    !.status = "ACTIVE"]}

\* The only duel ever created has been joined: it is ACTIVE with a user as
\* opponent, who is refused on a second join, as is the challenger.
C23_Witness ==
    /\ nextId = 2
    /\ \E d \in duels :
          /\ d.id = 1 /\ d.status = "ACTIVE" /\ d.opponent_id \in Users
          /\ \A u \in {d.challenger_id, d.opponent_id} :
                 \A o \in JoinResults(duels, u, 1) :
                     o.error = "Duel is not available for joining"

\* ---- C24 -----------------------------------------------------------------
\* C24: submit_solution fails with "Duel not found" for an id with no row,
\* with "Duel is not active" for a WAITING or COMPLETED duel, and with "You
\* are not a participant in this duel" for a caller who is neither side of
\* an ACTIVE duel (the first that applies); the result of a failing call is
\* the same whatever the judge would say of the code: no attempt is added,
\* the xp column and every duel are as they were. A call that none applies
\* to records an attempt of the caller.
C24_SubmitErrors ==
    \A u \in Users, id \in DuelIds :
        LET expected ==
                IF DuelsById(duels, id) = {} THEN "Duel not found"
                ELSE IF \E d \in DuelsById(duels, id) : d.status \in {"WAITING", "COMPLETED"}
                     THEN "Duel is not active"
                ELSE IF \E d \in DuelsById(duels, id) : ~IsSide(d, u)
                     THEN "You are not a participant in this duel"
                ELSE ""
        IN  /\ SubmitError(duels, u, id) = expected
            /\ \A ok \in BOOLEAN, tt \in TimesTaken :
                  \A o \in SubmitResults(duels, attempts, xp, now, u, id, ok, tt) :
                      IF expected # ""
                      THEN /\ o.attempts = attempts
                           /\ o.xp = xp
                           /\ o.duels = duels
                           /\ o.resp.winner_id = None
                      ELSE \E a \in o.attempts :
                               /\ a.user_id = u /\ a.created_at = now
                               /\ a.is_correct = ok

\* A first duel is COMPLETED and refuses its sides; the second is ACTIVE
\* against a bot and refuses the user who is not its challenger; attempts
\* and XP of the first duel are on record.
C24_Witness ==
    /\ attempts # {}
    /\ \E d \in duels :
          /\ d.id = 1 /\ d.status = "COMPLETED" /\ d.winner_id \in Users
          /\ xp[d.winner_id] > 0
          /\ SubmitError(duels, d.challenger_id, 1) = "Duel is not active"
    /\ \E d \in duels, v \in Users :
          /\ d.id = 2 /\ d.status = "ACTIVE" /\ IsBot(d.opponent_id)
          /\ v # d.challenger_id
          /\ SubmitError(duels, v, 2) = "You are not a participant in this duel"

C26_CompletionSurvivesXpFailure ==
    \A d \in duels : d.status = "ACTIVE" =>
        \A u \in Users, tt \in TimesTaken, f \in XpFailures :
            \A o \in XpFailedResults(duels, attempts, xp, now, u, d.id, tt, f) :
                o.resp.winner_id # None =>
                    \A e \in DuelsById(o.duels, d.id) :
                        /\ e.status = "COMPLETED"
                        /\ e.winner_id = o.resp.winner_id
                        /\ e.completed_at = now

\* ---- C27 -----------------------------------------------------------------
\* C27: get_available_duels for user u lists exactly the duels that are
\* WAITING, have no opponent and are not u's own, the newest first up to the
\* limit; a duel that is ACTIVE or COMPLETED or has an opponent is listed for
\* nobody, whether it got there by join_duel, by matchmaking or by a
\* submission; the duel a create_duel leaves WAITING is listed for every
\* other user and not for its creator.
C27_AvailableDuels ==
    /\ \A u \in Users :
          LET listed == {d \in duels : /\ d.status = "WAITING"
                                       /\ d.opponent_id = None
                                       /\ d.challenger_id # u}
          IN  /\ AvailableDuels(duels, u) = listed
              /\ \A limit \in Limits :
                    /\ AvailableDuelsPage(duels, u, limit) # {}
                    /\ \A page \in AvailableDuelsPage(duels, u, limit) :
                          /\ page \subseteq listed
                          /\ Cardinality(page) <= limit
                          /\ Cardinality(listed) <= limit => page = listed
    /\ \A d \in duels :
          (d.status \in {"ACTIVE", "COMPLETED"} \/ d.opponent_id # None) =>
              \A u \in Users, limit \in Limits :
                  \A page \in AvailableDuelsPage(duels, u, limit) : d \notin page
    /\ \A u \in Users, id \in DuelIds :
          \A o \in JoinResults(duels, u, id) : o.error = "" =>
              \A v \in Users : DuelsById(AvailableDuels(o.duels, v), id) = {}
    /\ \A id \in DuelIds :
          \A r \in AttemptMatchmaking(duels, id, now) : r.matched =>
              \A v \in Users : DuelsById(AvailableDuels(r.duels, v), id) = {}
    /\ \A u \in Users, q \in CodeQuestionIds :
          \A o \in CreateResults(duels, nextId, now, u, q) :
              \A e \in DuelsById(o.duels, nextId) :
                  (o.error = "" /\ e.status = "WAITING") =>
                      /\ \A v \in Users \ {u} : e \in AvailableDuels(o.duels, v)
                      /\ e \notin AvailableDuels(o.duels, u)

\* A first duel was joined and completed and is listed for nobody; the
\* second is WAITING and is what the other user is shown.
C27_Witness ==
    /\ \E d \in duels : /\ d.id = 1 /\ d.status = "COMPLETED"
                        /\ d.opponent_id \in Users
    /\ \E d \in duels, v \in Users :
          /\ d.id = 2 /\ d.status = "WAITING" /\ v # d.challenger_id
          /\ AvailableDuelsPage(duels, v, 10) = {{d}}
          /\ AvailableDuelsPage(duels, d.challenger_id, 10) = {{}}

\* ---- C28 -----------------------------------------------------------------
\* The winner the table of the bot adjudication gives for the user u with
\* the verdict ok and the elapsed time tt against the simulated solution br
\* of the bot.
BotTable(u, bot_id, ok, tt, br) ==
    CASE ok /\ ~br.is_correct -> u
      [] ~ok /\ br.is_correct -> bot_id
      [] ok /\ br.is_correct -> IF tt < br.time_taken THEN u ELSE bot_id
      [] ~ok /\ ~br.is_correct -> None

\* C28: for a submission of the challenger of an ACTIVE duel against a bot,
\* with either verdict and any elapsed time, and every solution the bot can
\* be simulated with: the winner is the user when only the user is correct,
\* the bot when only the bot is correct, and when both are correct the user
\* exactly when the user's time is strictly lower (equal times go to the
\* bot); when both are incorrect the submission sets no winner. The winners
\* a submission can report are those of the table; a reported winner is the
\* stored winner_id of the duel, now COMPLETED, and without a reported
\* winner the stored winner_id stays absent.
C28_BotAdjudication ==
    \A d \in duels : (d.status = "ACTIVE" /\ IsBot(d.opponent_id)) =>
        \A ok \in BOOLEAN, tt \in TimesTaken :
            LET u == d.challenger_id
                c == Call(u, d, ok, tt)
                brs == SimulateBotSolution(d.opponent_id, ok)
                results == SubmitResults(duels, attempts, xp, now, u, d.id, ok, tt)
            IN  /\ \A br \in brs :
                      \A ca \in LatestAttempts(attempts, u, d.question_id, d.created_at) :
                          DetermineWinner(c, ca, NoAttempt, br) =
                              BotTable(u, d.opponent_id, ok, tt, br)
                /\ {o.resp.winner_id : o \in results} =
                       {BotTable(u, d.opponent_id, ok, tt, br) : br \in brs}
                /\ \A o \in results :
                      /\ WinnerIn(o.duels, d.id) = {o.resp.winner_id}
                      /\ o.resp.winner_id # None =>
                             StatusIn(o.duels, d.id) = {"COMPLETED"}

\* A bot has won a duel in which the user's code was correct, with a time
\* the bot could equal, and another duel against a bot ended with no winner.
C28_Witness ==
    /\ \E d \in duels :
          /\ d.status = "COMPLETED" /\ d.winner_id = d.opponent_id
          /\ IsBot(d.opponent_id)
          /\ \E a \in AttemptsSince(d, d.challenger_id) :
                 a.is_correct /\ a.created_at = d.completed_at
          /\ \E br \in SimulateBotSolution(d.opponent_id, TRUE) :
                 br.is_correct /\ br.time_taken \in TimesTaken
    /\ \E d \in duels :
          /\ d.status = "COMPLETED" /\ d.winner_id = None
          /\ IsBot(d.opponent_id)

C30_HumanWinsByOwnCorrectSubmit ==
    /\ [](\A d \in duels : d.status = "ACTIVE" =>
            \A u \in Users, tt \in TimesTaken :
                /\ \A ok \in BOOLEAN :
                      \A o \in SubmitResults(duels, attempts, xp, now, u, d.id, ok, tt) :
                          \A w \in {o.resp.winner_id} \cup WinnerIn(o.duels, d.id) :
                              w \in Users => (w = u /\ ok)
                /\ \A f \in JudgeFailures :
                      \A o \in JudgeFailedResults(duels, attempts, xp, now, u, d.id, f, tt) :
                          \A w \in {o.resp.winner_id} \cup WinnerIn(o.duels, d.id) :
                              w \notin Users)
    /\ [][\A e \in duels' :
            (e.winner_id \in Users /\ WinnerIn(duels, e.id) # {e.winner_id}) =>
                \E a \in attempts' : /\ a.user_id = e.winner_id
                                      /\ a.question_id = e.question_id
                                      /\ a.is_correct
                                      /\ a.created_at = now
                                      /\ e.completed_at = now]_vars

\* The opponent of a duel of two users won it with correct code after the
\* challenger had submitted incorrect code at an earlier time.
C30_Witness ==
    \E d \in duels :
        /\ d.status = "COMPLETED" /\ d.opponent_id \in Users
        /\ d.winner_id = d.opponent_id
        /\ \E a \in AttemptsSince(d, d.opponent_id) :
               a.is_correct /\ a.created_at = d.completed_at
        /\ AttemptsSince(d, d.challenger_id) # {}
        /\ \A a \in AttemptsSince(d, d.challenger_id) :
               ~a.is_correct /\ a.created_at < d.completed_at

====
